---- MODULE Spec2Model ----
(***************************************************************************)
(* kerror: the must-check Error value and the ErrorOr<T> tagged union.     *)
(*                                                                         *)
(* Two headers of the repository are modelled side by side:               *)
(*   variant = "errno"  src/kerror.h          (Error carries errno_)       *)
(*   variant = "flag"   src/unnamed/part_000  (Error carries is_error_)    *)
(* Definitions taken from part_000 carry the suffix _p0.                   *)
(*                                                                         *)
(* A program is a bounded set of variables, each constructed once, used    *)
(* and destroyed once: Error variables 1..NumErr under SpecError,          *)
(* ErrorOr<A> variables 1..NumOr under SpecErrorOr, both under Spec, and   *)
(* MsgErrorInfo payloads 1..NumInfo under SpecMsg.  T is struct A of       *)
(* src/test.cc (one int, trivially destructible and copied by its move),   *)
(* so detail::destroy_(obj_) is the empty overload.                        *)
(*                                                                         *)
(* The bytes of the union that do not hold a constructed object of the     *)
(* type they are read as are garbage: every read of them is a              *)
(* nondeterministic choice (GarbageErrors, BOOLEAN for an uninitialised    *)
(* is_error_).                                                             *)
(***************************************************************************)
EXTENDS Integers, FiniteSets, Sequences, TLC

NumErr == 2
NumOr == 2
\* The length of a program: the number of operations it performs.
MaxOps == 5
\* The length of a program that uses both Error and ErrorOr<A> variables.
MaxBothOps == 4

\* The number of MsgErrorInfo objects a program creates.
NumInfo == 2

ErrSlots == 1..NumErr
InfoSlots == 1..NumInfo
OrSlots == 1..NumOr
\* IErrorInfo pointers: nullptr, a payload (a live IErrorInfo object), and a
\* pointer that is no payload (garbage read as a pointer).
NULL == NumErr - NumErr
PAYLOAD == NULL + 1
WILD == PAYLOAD + 1
\* A::x_: the value Create(1) stores, and bytes that hold no A.
ObjX == 1
JUNK == ObjX - ObjX
Objs == {ObjX}
ErrCodes == {0, 1}
Variants == {"errno", "flag"}
DIAGNOSTIC == "The error is don't checked by user"
\* The texts passed to MakeMsgError, and the empty string.
Texts == {"error", "out of range"}
EMPTY == ""

VARIABLES
  variant,   \* which header the program is built against
  E,         \* Error variables: st, errno_, checked_, info_, is_error_
  EH,        \* history of each Error variable (what has been applied to it)
  R,         \* ErrorOr<A> variables: st, is_error_, ctor, valid, err, obj
  RH,        \* history of each ErrorOr variable
  proc,      \* "running" | "aborted" (abort() of AbortIsChecked) | "crashed"
  stderr,    \* what AbortIsChecked has printed
  ops,       \* the number of operations the program has still to perform
  last,      \* the operation just performed, with its operands before it
  I,         \* MsgErrorInfo objects: st, made (the text given), msg_, calls
  got        \* the text the last GetMessage() returned

vars == <<variant, E, EH, R, RH, proc, stderr, ops, last, I, got>>

----------------------------------------------------------------------------
(* Error                                                                   *)

NoErr == [errno_ |-> 0, checked_ |-> FALSE, info_ |-> NULL, is_error_ |-> FALSE]

\* Error(error_t, unique_ptr<IErrorInfo>)
Error(error, info) ==
  [errno_ |-> error, checked_ |-> FALSE, info_ |-> info, is_error_ |-> FALSE]

\* Error(unique_ptr<IErrorInfo>)
Error_p0(info) ==
  [errno_ |-> 0, checked_ |-> FALSE, info_ |-> info, is_error_ |-> TRUE]

\* Error()
ErrorDefault == [errno_ |-> 0, checked_ |-> FALSE, info_ |-> NULL, is_error_ |-> FALSE]

\* Error(IsErrorFlag is_error = IsErrorFlag::OFF)
ErrorFlag_p0(on) ==
  [errno_ |-> 0, checked_ |-> FALSE, info_ |-> NULL, is_error_ |-> on]

\* is_success() that forgets info_ == nullptr
is_success_errnoonly(e) == e.errno_ = 0

is_success(e) == e.info_ = NULL \/ e.errno_ = 0

is_success_p0(e) == ~e.is_error_

is_error_p0(e) == e.is_error_

IsSuccess(e) == IF variant = "errno" THEN is_success(e) ELSE is_success_p0(e)

\* AbortIsChecked() with the test of is_success() inverted
AbortIsChecked_inverted(e) == ~e.checked_ /\ is_success(e)

\* AbortIsChecked() that forgets to look at checked_
AbortIsChecked_nocheck(e) == ~is_success(e)

\* TRUE when AbortIsChecked() prints the diagnostic and calls abort()
AbortIsChecked(e) == ~e.checked_ /\ ~is_success(e)

\* AbortIsChecked() that forgets to look at is_error()
AbortIsChecked_p0_anyvalue(e) == ~e.checked_

AbortIsChecked_p0(e) == ~e.checked_ /\ is_error_p0(e)

Aborts(e) == IF variant = "errno" THEN AbortIsChecked(e) ELSE AbortIsChecked_p0(e)

\* operator=(Error &&) that hands the source's checked_ over to the destination
MoveAssign_inherit(this, other) ==
  [this  |-> [this EXCEPT !.errno_ = other.errno_, !.checked_ = other.checked_,
                          !.info_ = other.info_],
   other |-> [other EXCEPT !.info_ = NULL, !.checked_ = TRUE, !.errno_ = 0]]

\* operator=(Error &&) that forgets info_ = std::move(other.info_)
MoveAssign_dropsinfo(this, other) ==
  [this  |-> [this EXCEPT !.errno_ = other.errno_, !.checked_ = FALSE],
   other |-> [other EXCEPT !.info_ = NULL, !.checked_ = TRUE, !.errno_ = 0]]

\* operator=(Error &&other), this != &other, after AbortIsChecked() returned
MoveAssign(this, other) ==
  [this  |-> [this EXCEPT !.errno_ = other.errno_, !.checked_ = FALSE,
                          !.info_ = other.info_],
   other |-> [other EXCEPT !.info_ = NULL, !.checked_ = TRUE, !.errno_ = 0]]

\* operator=(Error &&) that leaves other.checked_ as it was
MoveAssign_p0_forgets(this, other) ==
  [this  |-> [this EXCEPT !.checked_ = FALSE, !.is_error_ = other.is_error_,
                          !.info_ = other.info_],
   other |-> [other EXCEPT !.info_ = NULL]]

\* operator=(Error &&) that forgets is_error_ = other.is_error_
MoveAssign_p0_keepsflag(this, other) ==
  [this  |-> [this EXCEPT !.checked_ = FALSE, !.info_ = other.info_],
   other |-> [other EXCEPT !.info_ = NULL, !.checked_ = TRUE]]

MoveAssign_p0(this, other) ==
  [this  |-> [this EXCEPT !.checked_ = FALSE, !.is_error_ = other.is_error_,
                          !.info_ = other.info_],
   other |-> [other EXCEPT !.info_ = NULL, !.checked_ = TRUE]]

Assign(this, other) ==
  IF variant = "errno" THEN MoveAssign(this, other) ELSE MoveAssign_p0(this, other)

\* Error(Error &&other): the member initialisers, before *this = std::move(other)
MoveCtorInit(other) ==
  [errno_ |-> other.errno_, checked_ |-> TRUE, info_ |-> NULL, is_error_ |-> FALSE]

MoveCtorInit_p0(other) ==
  [errno_ |-> 0, checked_ |-> TRUE, info_ |-> NULL, is_error_ |-> other.is_error_]

CtorInit(other) ==
  IF variant = "errno" THEN MoveCtorInit(other) ELSE MoveCtorInit_p0(other)

\* Error(Error &&other) as a whole: [abort, this, other]
MoveConstruct(other) ==
  IF Aborts(CtorInit(other))
    THEN [abort |-> TRUE, this |-> CtorInit(other), other |-> other]
    ELSE [abort |-> FALSE] @@ Assign(CtorInit(other), other)

\* operator bool: the value returned, and the object afterwards
BoolReturn(e) == ~is_success(e)

BoolReturn_p0(e) == is_error_p0(e)

BoolRet(e) == IF variant = "errno" THEN BoolReturn(e) ELSE BoolReturn_p0(e)

\* operator bool that marks every tested Error checked
BoolMark_always(e) == [e EXCEPT !.checked_ = TRUE]

BoolMark(e) == [e EXCEPT !.checked_ = IsSuccess(e)]

\* an observer that forgets checked_ = true
MarkChecked_forgets(e) == e

\* info(), no(), IgnoreCheck(): checked_ = true
MarkChecked(e) == [e EXCEPT !.checked_ = TRUE]

\* The values a read of bytes that hold no Error can produce.
GarbageErrors ==
  IF variant = "errno"
    THEN [errno_ : ErrCodes, checked_ : BOOLEAN, info_ : {NULL, WILD}, is_error_ : {FALSE}]
    ELSE [errno_ : {0}, checked_ : BOOLEAN, info_ : {NULL, WILD}, is_error_ : BOOLEAN]

\* delete of a pointer that is no payload is undefined: it may crash or pass.
DeleteOutcomes(ptr) == IF ptr = WILD THEN {"running", "crashed"} ELSE {"running"}

----------------------------------------------------------------------------
(* State of the variables                                                  *)

DeadErr == [st |-> "dead"] @@ NoErr
UnbornErr == [st |-> "unborn"] @@ NoErr
Live(rec) == [st |-> "alive"] @@ rec
Fields(x) == [errno_ |-> x.errno_, checked_ |-> x.checked_, info_ |-> x.info_,
              is_error_ |-> x.is_error_]

\* MsgErrorInfo: the text MakeMsgError was given (made), the member msg_, and
\* the number of GetMessage() calls so far (1: one, 2: two or more).
UnbornInfo == [st |-> "unborn", made |-> EMPTY, msg_ |-> EMPTY, calls |-> 0]
DeadInfo == [UnbornInfo EXCEPT !.st = "dead"]
MsgErrorInfo(str) == [st |-> "alive", made |-> str, msg_ |-> str, calls |-> 0]

\* What a std::string that was moved from can hold: the standard leaves its
\* value unspecified; the libraries empty it.
MovedFromString(str) == {EMPTY, str}

\* GetMessage() that moves msg_ out before it reads it
GetMessage_p0_movesfirst(info) == [ret |-> EMPTY, after |-> MovedFromString(info.msg_)]

\* MsgErrorInfo::GetMessage(): the text returned and what msg_ can be afterwards
GetMessage_p0(info) == [ret |-> info.msg_, after |-> MovedFromString(info.msg_)]

GetMessage(info) == [ret |-> info.msg_, after |-> {info.msg_}]

\* History of an Error variable since its construction:
\*   only: "none"  nothing has been applied to it
\*         "bool"  only bool-tests;  "no"  only no()
\*         "obs"   only bool-tests, no(), info() and IgnoreCheck(), mixed
\*         "shell" it was moved from while it held a failure, and only those
\*                 four have been applied to it since
\*         "mixed" anything else
\*   lastop: the operation applied to it most recently ("movedfail": it was
\*           the source of a move while it held a failure, "moved": while it
\*           held none, "assigned": it was the destination of an assignment)
NoHist == [only |-> "none", lastop |-> "new"]
MovedAs(rec) == IF IsSuccess(rec) THEN "moved" ELSE "movedfail"
Applied(h, op) ==
  [only |-> IF op = "movedfail" THEN "shell"
            ELSE IF op \in {"moved", "assigned"} \/ h.only \in {"shell", "mixed"}
              THEN (IF h.only = "shell" /\ op \notin {"moved", "assigned"}
                      THEN "shell" ELSE "mixed")
            ELSE IF op \in {"bool", "no"} /\ h.only \in {"none", op} THEN op
            ELSE "obs",
   lastop |-> op]

\* The operation just performed: its name, the variable it was applied to (a),
\* the source of a move (b), the value returned (ret), and, for a move and a
\* destruction, what the moved or destroyed Error was just before:
\*   fail: it was a failure;  chk: its checked_;  ha: its history.
\*   die, sie: the discriminants of the destination and of the source of an
\*   ErrorOr move.
NoLast == [op |-> "init", a |-> 0, b |-> 0, ret |-> 0,
           fail |-> FALSE, chk |-> FALSE, ha |-> NoHist, die |-> FALSE, sie |-> FALSE]
Before(l, rec, h) == [l EXCEPT !.fail = ~IsSuccess(rec), !.chk = rec.checked_, !.ha = h]

\* ErrorOr<A>: the discriminant, the bytes of the union read as error_ (err,
\* meaningful when valid) and as obj_ (JUNK when they hold no A), and the
\* branch a constructor has actually run for (ctor).
DeadOr == [st |-> "dead", is_error_ |-> FALSE, ctor |-> "none", valid |-> FALSE,
           err |-> NoErr, obj |-> JUNK]
UnbornOr == [DeadOr EXCEPT !.st = "unborn"]
HoldsError(is_err, ctor, rec) ==
  [st |-> "alive", is_error_ |-> is_err, ctor |-> ctor, valid |-> TRUE,
   err |-> rec, obj |-> JUNK]
HoldsObj(is_err, ctor, v) ==
  [st |-> "alive", is_error_ |-> is_err, ctor |-> ctor, valid |-> FALSE,
   err |-> NoErr, obj |-> v]

\* History of an ErrorOr variable since its construction:
\*   born: "error" ErrorOr(Error), "obj" ErrorOr(T), "move" ErrorOr(ErrorOr&&)
\*   only: "none" nothing applied, "bool" only bool-tests, "info" only info(),
\*         "boolinfo" only bool-tests and info(), "mixed" it took part in a move
\*   hold: "unchecked" its bytes hold a failure passed to ErrorOr(Error) that no
\*         holder has yet seen (bool-test returning true) or extracted (info()),
\*         "seen" they hold one that a holder has, "none" they hold none
NoOrHist == [born |-> "none", only |-> "none", hold |-> "none"]
AppliedOr(h, op) ==
  [h EXCEPT !.only = IF op = "moved" \/ @ = "mixed" THEN "mixed"
                     ELSE IF @ \in {"none", op} THEN op ELSE "boolinfo"]

\* The self-assignment guard that is never taken
SameObject_never(this, other) == FALSE

\* &other == this in operator=(Error &&) and operator=(ErrorOr &&)
SameObject(this, other) == this = other

\* One more operation of a running program.
Tick == proc = "running" /\ ops > 0 /\ ops' = ops - 1

\* One more operation on Error and ErrorOr variables: it reads no message.
Step == Tick /\ UNCHANGED <<I, got>>

\* fprintf(stderr, ...); fflush(stderr); abort();
Abort == proc' = "aborted" /\ stderr' = DIAGNOSTIC

\* The start of a program of n operations.
Start(n) ==
  /\ variant \in Variants
  /\ E = [e \in ErrSlots |-> UnbornErr]
  /\ EH = [e \in ErrSlots |-> NoHist]
  /\ R = [r \in OrSlots |-> UnbornOr]
  /\ RH = [r \in OrSlots |-> NoOrHist]
  /\ proc = "running"
  /\ stderr = ""
  /\ ops = n
  /\ last = NoLast
  /\ I = [i \in InfoSlots |-> UnbornInfo]
  /\ got = EMPTY

Init == Start(MaxOps)

InitBoth == Start(MaxBothOps)

----------------------------------------------------------------------------
(* Operations on Error variables                                           *)

\* A new Error variable initialised with rec (variables are declared in order).
NewError(e, rec, op, arg) ==
  /\ Step
  /\ E[e].st = "unborn"
  /\ \A x \in ErrSlots : x < e => E[x].st # "unborn"
  /\ E' = [E EXCEPT ![e] = Live(rec)]
  /\ EH' = [EH EXCEPT ![e] = NoHist]
  /\ last' = [NoLast EXCEPT !.op = op, !.a = e, !.ret = arg]
  /\ UNCHANGED <<variant, R, RH, proc, stderr>>

\* Error err;
DefaultConstruct(e) ==
  NewError(e, IF variant = "errno" THEN ErrorDefault ELSE ErrorFlag_p0(FALSE),
           "Error()", 0)

\* auto err = MakeSuccess();
MakeSuccess(e) ==
  NewError(e, IF variant = "errno" THEN Error(0, NULL) ELSE ErrorFlag_p0(FALSE),
           "MakeSuccess", 0)

\* auto err = makeError(error);   (kerror.h only)
makeError(e, error) ==
  /\ variant = "errno"
  /\ NewError(e, Error(error, NULL), "makeError", error)

\* auto err = MakeNoInfoError();   (part_000 only)
MakeNoInfoError(e) ==
  /\ variant = "flag"
  /\ NewError(e, ErrorFlag_p0(TRUE), "MakeNoInfoError", 0)

\* auto err = MakeMsgError(error, msg);  /  MakeMsgError(msg) in part_000
MakeMsgError(e, error) ==
  /\ variant = "flag" => error = 1
  /\ NewError(e, IF variant = "errno" THEN Error(error, PAYLOAD)
                                      ELSE Error_p0(PAYLOAD),
              "MakeMsgError", error)

\* Error dst(std::move(src));
MoveConstructError(dst, src) ==
  /\ Step
  /\ dst # src
  /\ E[dst].st = "unborn"
  /\ \A x \in ErrSlots : x < dst => E[x].st # "unborn"
  /\ E[src].st = "alive"
  /\ LET m == MoveConstruct(Fields(E[src])) IN
       /\ last' = Before([NoLast EXCEPT !.op = "Error(Error&&)", !.a = dst, !.b = src],
                         Fields(E[src]), EH[src])
       /\ IF m.abort
            THEN Abort /\ UNCHANGED <<E, EH>>
            ELSE /\ E' = [E EXCEPT ![dst] = Live(m.this), ![src] = Live(m.other)]
                 /\ EH' = [EH EXCEPT ![dst] = NoHist,
                                     ![src] = Applied(EH[src], MovedAs(Fields(E[src])))]
                 /\ UNCHANGED <<proc, stderr>>
  /\ UNCHANGED <<variant, R, RH>>

\* dst = std::move(src);   (src may be dst itself)
MoveAssignError(dst, src) ==
  /\ Step
  /\ E[dst].st = "alive"
  /\ E[src].st = "alive"
  /\ last' = Before([NoLast EXCEPT !.op = "operator=", !.a = dst, !.b = src],
                    Fields(E[src]), EH[src])
  /\ IF SameObject(dst, src)
       THEN UNCHANGED <<E, EH, proc, stderr>>
       ELSE IF Aborts(Fields(E[dst]))
         THEN Abort /\ UNCHANGED <<E, EH>>
         ELSE LET m == Assign(Fields(E[dst]), Fields(E[src])) IN
                /\ E' = [E EXCEPT ![dst] = Live(m.this), ![src] = Live(m.other)]
                /\ EH' = [EH EXCEPT ![dst] = Applied(EH[dst], "assigned"),
                                    ![src] = Applied(EH[src], MovedAs(Fields(E[src])))]
                /\ UNCHANGED <<proc, stderr>>
  /\ UNCHANGED <<variant, R, RH>>

\* An observer of an Error variable: the object afterwards and the value returned.
Observe(e, op, post, ret) ==
  /\ Step
  /\ E[e].st = "alive"
  /\ E' = [E EXCEPT ![e] = Live(post)]
  /\ EH' = [EH EXCEPT ![e] = Applied(EH[e], op)]
  /\ last' = [NoLast EXCEPT !.op = op, !.a = e, !.ret = ret,
                            !.fail = ~IsSuccess(Fields(E[e]))]
  /\ UNCHANGED <<variant, R, RH, proc, stderr>>

\* if (err) ...
BoolError(e) ==
  Observe(e, "bool", BoolMark(Fields(E[e])), IF BoolRet(Fields(E[e])) THEN 1 ELSE 0)

\* err.info()
InfoError(e) == Observe(e, "info", MarkChecked(Fields(E[e])), E[e].info_)

\* err.no()   (kerror.h only)
NoError(e) ==
  /\ variant = "errno"
  /\ Observe(e, "no", MarkChecked(Fields(E[e])), E[e].errno_)

\* err.IgnoreCheck()
IgnoreCheck(e) == Observe(e, "ignore", MarkChecked(Fields(E[e])), 0)

\* ~Error(): AbortIsChecked(), then the payload is deleted
DestroyError(e) ==
  /\ Step
  /\ E[e].st = "alive"
  /\ last' = Before([NoLast EXCEPT !.op = "~Error", !.a = e], Fields(E[e]), EH[e])
  /\ IF Aborts(Fields(E[e]))
       THEN Abort /\ UNCHANGED <<E, EH>>
       ELSE /\ E' = [E EXCEPT ![e] = DeadErr]
            /\ EH' = [EH EXCEPT ![e] = NoHist]
            /\ UNCHANGED <<proc, stderr>>
  /\ UNCHANGED <<variant, R, RH>>

ErrorNext ==
  \/ \E e \in ErrSlots : DefaultConstruct(e)
  \/ \E e \in ErrSlots : MakeSuccess(e)
  \/ \E e \in ErrSlots, c \in ErrCodes : makeError(e, c)
  \/ \E e \in ErrSlots : MakeNoInfoError(e)
  \/ \E e \in ErrSlots, c \in ErrCodes : MakeMsgError(e, c)
  \/ \E d \in ErrSlots, s \in ErrSlots : MoveConstructError(d, s)
  \/ \E d \in ErrSlots, s \in ErrSlots : MoveAssignError(d, s)
  \/ \E e \in ErrSlots : BoolError(e)
  \/ \E e \in ErrSlots : InfoError(e)
  \/ \E e \in ErrSlots : NoError(e)
  \/ \E e \in ErrSlots : IgnoreCheck(e)
  \/ \E e \in ErrSlots : DestroyError(e)

SpecError == Init /\ [][ErrorNext]_vars

----------------------------------------------------------------------------
(* Operations on ErrorOr<A> variables                                      *)

\* The union overlays obj_ (A: one int) on the first member of error_:
\* errno_ in kerror.h, the low half of info_ in part_000.
\* error_ after obj_ = x was stored over a constructed Error:
OverlayObj(rec, x) == [rec EXCEPT !.errno_ = x]

OverlayObj_p0(rec, x) == [rec EXCEPT !.info_ = WILD]

Overlay(rec, x) ==
  IF variant = "errno" THEN OverlayObj(rec, x) ELSE OverlayObj_p0(rec, x)

\* obj_ read from a union whose bytes hold a constructed Error:
ObjOfError(rec) == rec.errno_

ObjOfError_p0(rec) == JUNK

\* What a read of the union as obj_ can yield.
ObjView(x) ==
  IF x.obj # JUNK THEN {x.obj}
  ELSE IF ~x.valid THEN {JUNK} \cup Objs
  ELSE IF variant = "errno" THEN {ObjOfError(x.err)} ELSE {ObjOfError_p0(x.err)}

\* What a read of the union as error_ yields.
ErrView(x) == IF x.valid THEN {x.err} ELSE GarbageErrors

\* The Error values a caller can pass: the results of the construction helpers.
ArgErrors ==
  IF variant = "errno"
    THEN {Error(c, i) : c \in ErrCodes, i \in {NULL, PAYLOAD}}
    ELSE {ErrorFlag_p0(b) : b \in BOOLEAN} \cup {Error_p0(PAYLOAD)}

HoldsFailure(x) == x.st = "alive" /\ x.valid /\ ~IsSuccess(x.err)

OrBefore(l, x, h) ==
  [l EXCEPT !.fail = x.valid /\ ~IsSuccess(x.err), !.chk = x.valid /\ x.err.checked_,
            !.ha = h]

NewOr(r) ==
  /\ Step
  /\ R[r].st = "unborn"
  /\ \A x \in OrSlots : x < r => R[x].st # "unborn"

\* ErrorOr(Error error): error_(std::move(error)); in kerror.h the body first
\* reads the uninitialised is_error_ and may call destroy_(obj_), which is the
\* empty overload for A; is_error_ = true; the parameter is then destroyed.
ConstructOrFromError(r, arg) ==
  /\ NewOr(r)
  /\ LET m == MoveConstruct(arg) IN
       /\ last' = [NoLast EXCEPT !.op = "ErrorOr(Error)", !.a = r,
                                 !.fail = ~IsSuccess(arg)]
       /\ IF m.abort \/ Aborts(m.other)
            THEN Abort /\ UNCHANGED <<R, RH>>
            ELSE /\ R' = [R EXCEPT ![r] = HoldsError(TRUE, "error", m.this)]
                 /\ RH' = [RH EXCEPT ![r] =
                       [NoOrHist EXCEPT !.born = "error",
                                        !.hold = IF IsSuccess(m.this) THEN "none"
                                                 ELSE "unchecked"]]
                 /\ UNCHANGED <<proc, stderr>>
  /\ UNCHANGED <<variant, E, EH>>

\* ErrorOr(T obj): obj_(std::move(obj)); in kerror.h the body first reads the
\* uninitialised is_error_ and, when it reads true, runs ~Error() on the bytes
\* that hold obj_; is_error_ = false.
ConstructOrFromT(r, v) ==
  /\ NewOr(r)
  /\ last' = [NoLast EXCEPT !.op = "ErrorOr(T)", !.a = r, !.ret = v]
  /\ \E garbage \in (IF variant = "errno" THEN BOOLEAN ELSE {FALSE}) :
       \E ge \in (IF garbage THEN GarbageErrors ELSE {NoErr}) :
         IF garbage /\ Aborts(ge)
           THEN Abort /\ UNCHANGED <<R, RH>>
           ELSE /\ proc' \in DeleteOutcomes(ge.info_)
                /\ R' = [R EXCEPT ![r] = HoldsObj(FALSE, "obj", v)]
                /\ RH' = [RH EXCEPT ![r] = [NoOrHist EXCEPT !.born = "obj"]]
                /\ UNCHANGED stderr
  /\ UNCHANGED <<variant, E, EH>>

\* ~ErrorOr(): is_error_ ? destroy_(error_) : destroy_(obj_)
DestroyOr(r) ==
  /\ Step
  /\ R[r].st = "alive"
  /\ last' = OrBefore([NoLast EXCEPT !.op = "~ErrorOr", !.a = r,
                                     !.die = R[r].is_error_,
                                     !.ret = IF R[r].ctor = "error" THEN 1 ELSE 0],
                      R[r], RH[r])
  /\ IF R[r].is_error_
       THEN \E ev \in ErrView(R[r]) :
              IF Aborts(ev)
                THEN Abort /\ UNCHANGED <<R, RH>>
                ELSE /\ proc' \in DeleteOutcomes(ev.info_)
                     /\ R' = [R EXCEPT ![r] = DeadOr]
                     /\ RH' = [RH EXCEPT ![r] = NoOrHist]
                     /\ UNCHANGED stderr
       ELSE /\ R' = [R EXCEPT ![r] = DeadOr]
            /\ RH' = [RH EXCEPT ![r] = NoOrHist]
            /\ UNCHANGED <<proc, stderr>>
  /\ UNCHANGED <<variant, E, EH>>

\* ErrorOr(ErrorOr &&other): is_error_(other.is_error_);
\*   other.is_error_ ? new (&obj_) T(std::move(other.obj_))
\*                   : new (&error_) Error(std::move(other.error_))
MoveConstructOr(dst, src) ==
  /\ NewOr(dst)
  /\ dst # src
  /\ R[src].st = "alive"
  /\ last' = OrBefore([NoLast EXCEPT !.op = "ErrorOr(ErrorOr&&)", !.a = dst, !.b = src,
                                     !.sie = R[src].is_error_], R[src], RH[src])
  /\ IF R[src].is_error_
       THEN /\ \E v \in ObjView(R[src]) :
                 R' = [R EXCEPT ![dst] = HoldsObj(R[src].is_error_, "obj", v)]
            /\ RH' = [RH EXCEPT ![dst] = [NoOrHist EXCEPT !.born = "move"],
                                ![src] = AppliedOr(RH[src], "moved")]
            /\ UNCHANGED <<proc, stderr>>
       ELSE \E ov \in ErrView(R[src]) :
              LET m == MoveConstruct(ov) IN
                IF m.abort
                  THEN Abort /\ UNCHANGED <<R, RH>>
                  ELSE /\ R' = [R EXCEPT
                             ![dst] = HoldsError(R[src].is_error_, "error", m.this),
                             ![src] = IF R[src].valid
                                        THEN [R[src] EXCEPT !.err = m.other]
                                        ELSE [R[src] EXCEPT !.obj = JUNK]]
                       /\ RH' = [RH EXCEPT
                             ![dst] = [NoOrHist EXCEPT !.born = "move",
                                                       !.hold = RH[src].hold],
                             ![src] = [AppliedOr(RH[src], "moved") EXCEPT !.hold = "none"]]
                       /\ UNCHANGED <<proc, stderr>>
  /\ UNCHANGED <<variant, E, EH>>

\* The discriminant operator=(ErrorOr &&other) stores when the two differ.
AssignedDiscriminant(other_is_error) == ~other_is_error

\* error_ = std::move(other.error_) inside operator=(ErrorOr &&)
AssignErrorBranch(dst, src, is_err) ==
  \E dv \in ErrView(R[dst]), ov \in ErrView(R[src]) :
    IF Aborts(dv)
      THEN Abort /\ UNCHANGED <<R, RH>>
      ELSE LET m == Assign(dv, ov) IN
        /\ proc' \in DeleteOutcomes(dv.info_)
        /\ R' = [R EXCEPT
              ![dst] = [R[dst] EXCEPT !.is_error_ = is_err, !.valid = TRUE,
                                      !.err = m.this, !.obj = JUNK],
              ![src] = IF R[src].valid THEN [R[src] EXCEPT !.err = m.other]
                                       ELSE [R[src] EXCEPT !.obj = JUNK]]
        /\ RH' = [RH EXCEPT
              ![dst] = [AppliedOr(RH[dst], "moved") EXCEPT !.hold = RH[src].hold],
              ![src] = [AppliedOr(RH[src], "moved") EXCEPT !.hold = "none"]]
        /\ UNCHANGED stderr

\* obj_ = std::move(other.obj_) inside operator=(ErrorOr &&)
\* (the second occurrence is spelled other.obj in the source)
AssignObjBranch(dst, src, is_err) ==
  /\ \E v \in ObjView(R[src]) :
       LET stored == IF R[dst].valid
                       THEN [R[dst] EXCEPT !.is_error_ = is_err,
                                           !.err = Overlay(R[dst].err, v), !.obj = v]
                       ELSE [R[dst] EXCEPT !.is_error_ = is_err, !.obj = v]
       IN /\ R' = [R EXCEPT ![dst] = stored]
          /\ RH' = [RH EXCEPT
                ![dst] = [AppliedOr(RH[dst], "moved") EXCEPT
                            !.hold = IF HoldsFailure(stored) THEN @ ELSE "none"],
                ![src] = AppliedOr(RH[src], "moved")]
  /\ UNCHANGED <<proc, stderr>>

\* dst = std::move(src);   (src may be dst itself)
MoveAssignOr(dst, src) ==
  /\ Step
  /\ R[dst].st = "alive"
  /\ R[src].st = "alive"
  /\ last' = OrBefore([NoLast EXCEPT !.op = "ErrorOr::operator=", !.a = dst, !.b = src,
                                     !.die = R[dst].is_error_,
                                     !.sie = R[src].is_error_], R[src], RH[src])
  /\ IF SameObject(dst, src)
       THEN UNCHANGED <<R, RH, proc, stderr>>
       ELSE IF R[src].is_error_ = R[dst].is_error_
         THEN IF R[dst].is_error_
                THEN AssignErrorBranch(dst, src, R[dst].is_error_)
                ELSE AssignObjBranch(dst, src, R[dst].is_error_)
         ELSE IF R[src].is_error_
                THEN AssignErrorBranch(dst, src, AssignedDiscriminant(R[src].is_error_))
                ELSE AssignObjBranch(dst, src, AssignedDiscriminant(R[src].is_error_))
  /\ UNCHANGED <<variant, E, EH>>

\* operator bool that forgets !error_.is_success()
BoolOrReturn_flagonly(x, ev) == x.is_error_

\* operator bool: is_error_ && !error_.is_success()
BoolOrReturn(x, ev) == x.is_error_ /\ ~IsSuccess(ev)

\* operator bool that marks the Error of the union checked
BoolOrPost_marks(x) == [x EXCEPT !.err = MarkChecked(@)]

\* operator bool is const and calls only is_success(): the object afterwards
BoolOrPost(x) == x

\* if (res) ...
BoolOr(r) ==
  /\ Step
  /\ R[r].st = "alive"
  /\ \E ev \in (IF R[r].is_error_ THEN ErrView(R[r]) ELSE {NoErr}) :
       /\ last' = [NoLast EXCEPT !.op = "ErrorOr::bool", !.a = r,
                                 !.ret = IF BoolOrReturn(R[r], ev) THEN 1 ELSE 0,
                                 !.fail = HoldsFailure(R[r]),
                                 !.die = R[r].is_error_]
       /\ RH' = [RH EXCEPT ![r] =
             [AppliedOr(RH[r], "bool") EXCEPT
                !.hold = IF @ = "unchecked" /\ BoolOrReturn(R[r], ev) THEN "seen" ELSE @]]
  /\ R' = [R EXCEPT ![r] = BoolOrPost(R[r])]
  /\ UNCHANGED <<variant, E, EH, proc, stderr>>

\* res.info(): error_.info(), whatever the discriminant
InfoOr(r) ==
  /\ Step
  /\ R[r].st = "alive"
  /\ \E ev \in ErrView(R[r]) :
       /\ last' = [NoLast EXCEPT !.op = "ErrorOr::info", !.a = r, !.ret = ev.info_,
                                 !.fail = HoldsFailure(R[r]),
                                 !.die = R[r].is_error_]
       /\ R' = [R EXCEPT ![r] = IF R[r].valid
                                  THEN [R[r] EXCEPT !.err = MarkChecked(ev)]
                                  ELSE R[r]]
  /\ RH' = [RH EXCEPT ![r] =
        [AppliedOr(RH[r], "info") EXCEPT !.hold = IF @ = "unchecked" THEN "seen" ELSE @]]
  /\ UNCHANGED <<variant, E, EH, proc, stderr>>

OrNext ==
  \/ \E r \in OrSlots : \E arg \in ArgErrors : ConstructOrFromError(r, arg)
  \/ \E r \in OrSlots, v \in Objs : ConstructOrFromT(r, v)
  \/ \E d \in OrSlots, s \in OrSlots : MoveConstructOr(d, s)
  \/ \E d \in OrSlots, s \in OrSlots : MoveAssignOr(d, s)
  \/ \E r \in OrSlots : BoolOr(r)
  \/ \E r \in OrSlots : InfoOr(r)
  \/ \E r \in OrSlots : DestroyOr(r)

SpecErrorOr == Init /\ [][OrNext]_vars

----------------------------------------------------------------------------
(* Operations on MsgErrorInfo payloads                                    *)

\* MakeMsgError(m): new MsgErrorInfo(m)   (objects are created in order)
NewMsgErrorInfo(i, m) ==
  /\ Tick
  /\ I[i].st = "unborn"
  /\ \A x \in InfoSlots : x < i => I[x].st # "unborn"
  /\ I' = [I EXCEPT ![i] = MsgErrorInfo(m)]
  /\ last' = [NoLast EXCEPT !.op = "MsgErrorInfo", !.a = i]
  /\ UNCHANGED <<variant, E, EH, R, RH, proc, stderr, got>>

\* err.info()->GetMessage()
CallGetMessage(i) ==
  /\ Tick
  /\ I[i].st = "alive"
  /\ LET g == IF variant = "errno" THEN GetMessage(I[i]) ELSE GetMessage_p0(I[i]) IN
       /\ got' = g.ret
       /\ \E str \in g.after :
            I' = [I EXCEPT ![i] = [@ EXCEPT !.msg_ = str,
                                           !.calls = IF @ = 0 THEN 1 ELSE 2]]
  /\ last' = [NoLast EXCEPT !.op = "GetMessage", !.a = i]
  /\ UNCHANGED <<variant, E, EH, R, RH, proc, stderr>>

\* the owning Error is destroyed: ~unique_ptr<IErrorInfo> deletes the object
DeleteInfo(i) ==
  /\ Tick
  /\ I[i].st = "alive"
  /\ I' = [I EXCEPT ![i] = DeadInfo]
  /\ last' = [NoLast EXCEPT !.op = "~MsgErrorInfo", !.a = i]
  /\ UNCHANGED <<variant, E, EH, R, RH, proc, stderr, got>>

MsgNext ==
  \/ \E i \in InfoSlots, m \in Texts : NewMsgErrorInfo(i, m)
  \/ \E i \in InfoSlots : CallGetMessage(i)
  \/ \E i \in InfoSlots : DeleteInfo(i)

SpecMsg == Init /\ [][MsgNext]_vars

\* A program that uses both Error and ErrorOr<A> variables.
Next == ErrorNext \/ OrNext

Spec == InitBoth /\ [][Next]_vars

----------------------------------------------------------------------------
(* Properties                                                              *)

DestroyedError == last.op = "~Error"
DestroyedOr == last.op = "~ErrorOr"
MovedError == /\ last.op \in {"Error(Error&&)", "operator="}
              /\ last.a # last.b
              /\ proc = "running"
Diagnosed == proc = "aborted" /\ stderr = DIAGNOSTIC
\* a bool-test of an ErrorOr made by ErrorOr(Error) and not moved since
BoolTestedOr == /\ last.op = "ErrorOr::bool"
                /\ RH[last.a].born = "error"
                /\ RH[last.a].only \in {"bool", "boolinfo"}

\* C1: no failure is silently discarded: an ErrorOr whose bytes hold a failure
\* that no holder has seen or extracted never stops holding it in a step that
\* neither hands it to another variable nor aborts the process.
C1_NoSilentDiscard ==
  [][\A r \in OrSlots :
       (/\ RH[r].hold = "unchecked"
        /\ RH'[r].hold = "none"
        /\ ~\E q \in OrSlots \ {r} :
               RH[q].hold # "unchecked" /\ RH'[q].hold = "unchecked")
       => proc' = "aborted"]_vars

\* C2 (as stated): a failure Error destroyed without any bool-test, info() or
\* IgnoreCheck() applied to it, and not moved from, aborts after the diagnostic.
C2_Original ==
  (DestroyedError /\ last.fail /\ last.ha.only \in {"none", "no"}) => Diagnosed

\* C2 (amended): a failure Error destroyed with nothing at all applied to it
\* since its construction (no bool-test, info(), no(), IgnoreCheck() or move)
\* aborts after the diagnostic has been written to stderr.
C2_UntouchedFailureAborts ==
  (DestroyedError /\ last.fail /\ last.ha.only = "none") => Diagnosed

C2_Witness == DestroyedError /\ last.fail /\ last.ha.only = "none" /\ Diagnosed

\* C3 (as stated): bool on a failure Error marks it checked and returns true, and
\* a failure that was only bool-tested is destroyed without an abort.
C3_Original ==
  /\ (last.op = "bool" /\ last.fail) => (last.ret = 1 /\ E[last.a].checked_)
  /\ (DestroyedError /\ last.fail /\ last.ha.only = "bool") => proc = "running"

\* C3 (amended): bool on a failure Error returns true and leaves it unchecked,
\* bool on a success returns false and marks it checked, and a failure that was
\* only bool-tested aborts with the diagnostic when it is destroyed.
C3_BoolLeavesFailureUnchecked ==
  /\ (last.op = "bool" /\ last.fail) => (last.ret = 1 /\ ~E[last.a].checked_)
  /\ (last.op = "bool" /\ ~last.fail) => (last.ret = 0 /\ E[last.a].checked_)
  /\ (DestroyedError /\ last.fail /\ last.ha.only = "bool") => Diagnosed

C3_Witness == DestroyedError /\ last.fail /\ last.ha.only = "bool" /\ Diagnosed

\* C4: a failure Error destroyed right after info() or IgnoreCheck() was called
\* on it is destroyed without an abort.
C4_CheckedThenDestroyed ==
  (DestroyedError /\ last.fail /\ last.ha.lastop \in {"info", "ignore"})
    => (proc = "running" /\ E[last.a].st = "dead")

C4_Witness ==
  /\ DestroyedError /\ last.fail /\ last.ha.lastop \in {"info", "ignore"}
  /\ E[last.a].st = "dead"

\* C5: an Error that held a failure and was moved into another Error (by
\* construction or assignment) is destroyed right afterwards without an abort.
C5_MovedFromDestroyed ==
  (DestroyedError /\ last.ha.lastop = "movedfail")
    => (proc = "running" /\ E[last.a].st = "dead")

C5_Witness ==
  DestroyedError /\ last.ha.lastop = "movedfail" /\ E[last.a].st = "dead"

\* C6 (as stated): after a failure Error A was moved into B, B's checked flag
\* equals the checked flag A had before the move.
C6_Original ==
  (MovedError /\ last.fail) => (E[last.a].checked_ = last.chk)

\* C6 (amended): after a failure Error A was moved into B, B is unchecked
\* whatever A's checked flag was before the move, and A is left checked.
C6_DestinationUnchecked ==
  (MovedError /\ last.fail) => (~E[last.a].checked_ /\ E[last.b].checked_)

C6_Witness == MovedError /\ last.fail /\ last.chk /\ ~E[last.a].checked_

\* C7: the discriminant of a live ErrorOr is true exactly when the Error branch
\* of its union is the one a constructor has run for, and its destructor
\* destroys the Error branch exactly in that case.
C7_DiscriminantConsistent ==
  /\ \A r \in OrSlots :
       R[r].st = "alive" => (R[r].is_error_ <=> R[r].ctor = "error")
  /\ DestroyedOr => (last.die <=> last.ret = 1)

\* C8: after an ErrorOr was move-assigned from one with the other discriminant,
\* the destination's discriminant equals the one the source had.
C8_AssignTakesDiscriminant ==
  (/\ last.op = "ErrorOr::operator="
   /\ last.a # last.b
   /\ last.die # last.sie
   /\ proc = "running")
  => (R[last.a].is_error_ = last.sie)

\* C9: an ErrorOr constructed from a failing Error and never moved aborts with
\* the diagnostic at destruction if info() was never called on it, and is
\* destroyed without an abort if info() was called.
C9_OrMustBeExtracted ==
  (DestroyedOr /\ last.ha.born = "error" /\ last.fail /\ last.ha.only # "mixed")
  => IF last.ha.only \in {"none", "bool"}
       THEN Diagnosed
       ELSE proc = "running" /\ R[last.a].st = "dead"

C9_Witness ==
  /\ DestroyedOr /\ last.ha.born = "error" /\ last.fail
  /\ last.ha.only \in {"info", "boolinfo"}
  /\ R[last.a].st = "dead"

\* C10 (as stated): an ErrorOr holding a failure that was only bool-tested is
\* destroyed without an abort, the bool-test having marked it checked.
C10_Original ==
  /\ (BoolTestedOr /\ last.fail) => (last.ret = 1 /\ R[last.a].err.checked_)
  /\ (DestroyedOr /\ last.ha.born = "error" /\ last.fail /\ last.ha.only = "bool")
       => proc = "running"

\* C10 (amended): bool on an ErrorOr constructed from a failing Error returns
\* true and leaves the Error unchecked: destroyed after bool-tests only, the
\* ErrorOr aborts with the diagnostic.
C10_BoolOrLeavesUnchecked ==
  /\ (BoolTestedOr /\ last.fail)
       => /\ last.ret = 1
          /\ R[last.a].err.checked_ = (RH[last.a].only = "boolinfo")
  /\ (DestroyedOr /\ last.ha.born = "error" /\ last.fail /\ last.ha.only = "bool")
       => Diagnosed

C10_Witness ==
  /\ DestroyedOr /\ last.ha.born = "error" /\ last.fail /\ last.ha.only = "bool"
  /\ Diagnosed

\* a history without any move
Unmoved(h) == h.only \in {"none", "bool", "no", "obs"}

\* C12: bool on an Error made by Error() or MakeSuccess() returns false, and an
\* Error that holds a success and was never part of a move is destroyed without
\* an abort whatever bool-tests, info() and IgnoreCheck() calls preceded.
C12_SuccessNeverAborts ==
  /\ (/\ last.op = "bool"
      /\ Unmoved(EH[last.a])
      /\ E[last.a].info_ = NULL /\ E[last.a].errno_ = 0 /\ ~E[last.a].is_error_)
     => last.ret = 0
  /\ (DestroyedError /\ ~last.fail /\ Unmoved(last.ha))
     => (proc = "running" /\ E[last.a].st = "dead")

C12_Witness ==
  /\ DestroyedError /\ ~last.fail /\ last.ha.only = "obs"
  /\ E[last.a].st = "dead"

C15_CheckedMonotone ==
  [][\A e \in ErrSlots :
       (/\ last'.op \in {"bool", "info", "ignore"}
        /\ last'.a = e
        /\ EH[e].only \in {"bool", "no", "obs"}
        /\ E[e].checked_)
       => E'[e].checked_]_vars

\* C16 (as stated): info() on an Error for which is_success() holds returns
\* null, does not abort and leaves it a success.
C16_Original ==
  (last.op = "info" /\ ~last.fail)
    => /\ last.ret = NULL
       /\ proc = "running"
       /\ IsSuccess(Fields(E[last.a]))

\* C16 (amended): info() on an Error for which is_success() holds does not abort
\* and leaves it a checked success; it returns null, except in kerror.h for an
\* Error that owns a payload with error number 0, where it returns that payload.
C16_InfoOnSuccess ==
  (last.op = "info" /\ ~last.fail)
    => /\ proc = "running"
       /\ IsSuccess(Fields(E[last.a])) /\ E[last.a].checked_
       /\ \/ last.ret = NULL
          \/ variant = "errno" /\ E[last.a].errno_ = 0 /\ last.ret = PAYLOAD

C16_Witness == last.op = "info" /\ ~last.fail /\ last.ret = PAYLOAD

\* C17: move-assigning an Error into a distinct destination aborts with the
\* diagnostic exactly when the destination holds an unchecked failure, leaving
\* both untouched; otherwise the destination ends up unchecked with the
\* source's payload.
C17_AssignAbortsIffUnchecked ==
  [][(last'.op = "operator=" /\ last'.a # last'.b)
     => IF ~E[last'.a].checked_ /\ ~IsSuccess(Fields(E[last'.a]))
          THEN proc' = "aborted" /\ stderr' = DIAGNOSTIC /\ E' = E
          ELSE /\ proc' = "running"
               /\ ~E'[last'.a].checked_
               /\ E'[last'.a].info_ = E[last'.b].info_
               /\ IsSuccess(Fields(E'[last'.a])) = IsSuccess(Fields(E[last'.b]))]_vars

C17_Witness == last.op = "operator=" /\ last.a # last.b /\ Diagnosed

\* C18: in part_000 an Error that was moved from while it held a failure
\* reports success on a bool-test, and is destroyed without an abort whatever
\* bool-tests, info() and IgnoreCheck() calls were applied to it after the move.
C18_MovedFromIsShell ==
  variant = "flag" =>
    /\ (last.op = "bool" /\ EH[last.a].only = "shell") => last.ret = 0
    /\ (DestroyedError /\ last.ha.only = "shell") => proc = "running"

\* C11: bool on an ErrorOr made by ErrorOr(Error) or ErrorOr(T) and never part
\* of a move returns true exactly when it was made from a failing Error (false
\* when made from a T or from a success), and changes nothing of the ErrorOr.
C11_BoolOrReports ==
  [][last'.op = "ErrorOr::bool"
     => /\ R' = R
        /\ (/\ RH'[last'.a].only \in {"bool", "boolinfo"}
            /\ RH[last'.a].born \in {"error", "obj"})
           => ((last'.ret = 1) <=>
                 (RH[last'.a].born = "error" /\ HoldsFailure(R[last'.a])))]_vars

C11_Witness ==
  BoolTestedOr /\ last.fail /\ last.ret = 1 /\ RH[last.a].only = "bool"

\* C19: after an ErrorOr was move-constructed from one that held a failure, the
\* source owns no payload and would not abort at destruction, and the new
\* ErrorOr holds the failure unchecked.
C19_MoveConstructTransfers ==
  (/\ last.op = "ErrorOr(ErrorOr&&)"
   /\ last.fail /\ last.sie
   /\ proc = "running")
  => /\ R[last.b].err.info_ = NULL
     /\ ~Aborts(R[last.b].err)
     /\ HoldsFailure(R[last.a]) /\ ~R[last.a].err.checked_

\* C13: move-assigning an Error or an ErrorOr to itself changes nothing of any
\* variable (payload, status, checked flag, discriminant) and does not abort,
\* even when the value is an unchecked failure.
C13_SelfAssignNoOp ==
  [][(last'.op \in {"operator=", "ErrorOr::operator="} /\ last'.a = last'.b)
     => UNCHANGED <<E, R, proc, stderr>>]_vars

C13_Witness ==
  \/ /\ last.op = "operator=" /\ last.a = last.b
     /\ Aborts(Fields(E[last.a]))
  \/ /\ last.op = "ErrorOr::operator=" /\ last.a = last.b
     /\ RH[last.a].hold = "unchecked"

\* C20 (as stated): in part_000 every call of GetMessage() on the payload of an
\* Error made by MakeMsgError(m), the first and any later one, returns m.
C20_Original ==
  (last.op = "GetMessage" /\ variant = "flag") => got = I[last.a].made

\* C20 (amended): the first call of GetMessage() on the payload of an Error made
\* by MakeMsgError(m) returns m; in part_000 the call moves the text out, so a
\* later call returns the moved-from text (m or the empty string), and the
\* empty string once it has returned that; in kerror.h every call returns m.
C20_FirstCallReturnsText ==
  last.op = "GetMessage" =>
    /\ I[last.a].calls = 1 => got = I[last.a].made
    /\ variant = "errno" => got = I[last.a].made
    /\ got \in {I[last.a].made, EMPTY}
    /\ got = EMPTY => I[last.a].msg_ = EMPTY

C20_Witness ==
  /\ last.op = "GetMessage" /\ variant = "flag"
  /\ I[last.a].calls = 2 /\ got = EMPTY
====
